---------------------------- MODULE Spec2Model ----------------------------
(***************************************************************************)
(* Session/event analytics of the Delta agent generator:                   *)
(*   scripts/analyze_experience.py        (class ExperienceAnalyzer)       *)
(*   experience-analyzer/tools/basic_stats.py   (module functions)         *)
(*                                                                         *)
(* A record of the log is a TLA+ record whose DOMAIN is the set of keys    *)
(* the JSON object carries ('cost_usd' in s  is  "cost_usd" \in DOMAIN s). *)
(* Money is kept in thousandths of a dollar (mills) in the records, so     *)
(* that round(x, 2) is a real rounding; every number an aggregator reports *)
(* is an exact rational <<numerator, denominator>>.  A denominator of 0    *)
(* stands for the exception Python raises (ZeroDivisionError, or the       *)
(* StatisticsError / ValueError of mean, min, max over an empty list).     *)
(* Binary floating point is abstracted by exact arithmetic; round(x, 2)    *)
(* resolves an exact decimal tie to the even neighbour.                    *)
(***************************************************************************)
EXTENDS Integers, Sequences, FiniteSets, TLC

VARIABLES
    impl,       \* which program runs: "analyzer" or "basic_stats"
    exists,     \* whether the sessions file exists
    file,       \* the lines of the sessions file
    pos,        \* number of lines the loader's for-loop has consumed
    sessions,   \* self.sessions / the list load_sessions builds
    stderr,     \* number of diagnostics printed to sys.stderr
    pc,         \* "open", "reading", "loaded", "done", "raised"
    out         \* the document analyze_all returns / main prints

vars == <<impl, exists, file, pos, sessions, stderr, pc, out>>

Impls == {"analyzer", "basic_stats"}

\* Python's None, as returned by dict.get for a missing key.
None == "None"

\* dict.get(k, d)
Get(s, k, d) == IF k \in DOMAIN s THEN s[k] ELSE d

\* Truthiness of a session id (`if sid:`): None and "" are falsy.
Truthy(v) == v # None /\ v # ""

-----------------------------------------------------------------------------
(* Exact rationals <<n, d>>, d > 0; d = 0 is a raised exception.           *)

Zero == <<0, 1>>
Raises(r) == r[2] = 0
Div(n, d) == IF d = 0 THEN <<0, 0>> ELSE <<n, d>>
REq(a, b) == a[1] * b[2] = b[1] * a[2]
RLt(a, b) == a[1] * b[2] < b[1] * a[2]
RLe(a, b) == a[1] * b[2] <= b[1] * a[2]

\* Nearest integer to n/d (n >= 0, d > 0), ties to even.
RoundHalfEven(n, d) ==
    LET q == n \div d
        r == n % d
    IN  IF 2 * r < d THEN q
        ELSE IF 2 * r > d THEN q + 1
        ELSE IF q % 2 = 0 THEN q ELSE q + 1

\* round(x, 2): the nearest multiple of 1/100.
Round2(x) == IF Raises(x) THEN x ELSE <<RoundHalfEven(100 * x[1], x[2]), 100>>

\* A cost in mills as a number of dollars.
Usd(mills) == <<mills, 1000>>

RECURSIVE SumSeq(_)
SumSeq(q) == IF q = <<>> THEN 0 ELSE Head(q) + SumSeq(Tail(q))

RECURSIVE MinSeq(_)
MinSeq(q) == IF Len(q) = 1 THEN q[1]
             ELSE LET m == MinSeq(Tail(q)) IN IF q[1] <= m THEN q[1] ELSE m

RECURSIVE MaxSeq(_)
MaxSeq(q) == IF Len(q) = 1 THEN q[1]
             ELSE LET m == MaxSeq(Tail(q)) IN IF q[1] >= m THEN q[1] ELSE m

\* sorted(q)
RECURSIVE Sorted(_)
Sorted(q) ==
    IF q = <<>> THEN <<>>
    ELSE LET m == MinSeq(q)
             i == CHOOSE j \in 1..Len(q) : q[j] = m
         IN  <<m>> \o Sorted(SubSeq(q, 1, i - 1) \o SubSeq(q, i + 1, Len(q)))

\* statistics.mean, min, max, median over a list of mills, in dollars.
mean(q) == Div(SumSeq(q), 1000 * Len(q))
min(q) == IF q = <<>> THEN <<0, 0>> ELSE Usd(MinSeq(q))
max(q) == IF q = <<>> THEN <<0, 0>> ELSE Usd(MaxSeq(q))
median(q) ==
    IF q = <<>> THEN <<0, 0>>
    ELSE LET s == Sorted(q)
             n == Len(q)
         IN  IF n % 2 = 1 THEN Usd(s[(n + 1) \div 2])
             ELSE <<s[n \div 2] + s[n \div 2 + 1], 2000>>

-----------------------------------------------------------------------------
(* The sessions file.  A line is blank, malformed JSON, a JSON object, or  *)
(* a JSON value that is no object (json.loads accepts it all the same).    *)

BlankLine == [kind |-> "blank"]
MalformedLine == [kind |-> "malformed"]
ScalarLine == [kind |-> "scalar"]
ObjectLine(r) == [kind |-> "object", value |-> r]

\* line.strip()
strip(line) == line.kind # "blank"

\* What json.loads(line) returns; a JSON scalar is kept as a marked value.
ScalarValue == [scalar |-> TRUE]
json_loads(line) ==
    IF line.kind = "object" THEN [ok |-> TRUE, value |-> line.value]
    ELSE IF line.kind = "scalar" THEN [ok |-> TRUE, value |-> ScalarValue]
    ELSE [ok |-> FALSE, value |-> ScalarValue]

IsDict(s) == "scalar" \notin DOMAIN s


-----------------------------------------------------------------------------
(* Shared list comprehensions of both programs.                            *)

\* [s for s in ss if s.get('action') == a]
ByAction(ss, a) == SelectSeq(ss, LAMBDA s : Get(s, "action", None) = a)

\* [s['cost_usd'] for s in ss if 'cost_usd' in s]
CostsOf(ss) ==
    LET costed == SelectSeq(ss, LAMBDA s : "cost_usd" \in DOMAIN s)
    IN  [i \in 1..Len(costed) |-> costed[i].cost_usd]

-----------------------------------------------------------------------------
(* ExperienceAnalyzer.get_summary                                          *)

\* A slip in the filter: only the execute records are summed.
total_cost_execute_only(ss) == SumSeq(CostsOf(ByAction(ss, "execute")))

\* sum(s.get('cost_usd', 0) for s in sessions if 'cost_usd' in s), in mills
total_cost(ss) == SumSeq(CostsOf(ss))

\* A slip in the default: ... if executions else 1
success_rate_default_one(completed, executions) ==
    IF executions # <<>> THEN Div(Len(completed), Len(executions)) ELSE <<1, 1>>

\* len(completed) / len(executions) if executions else 0
success_rate(completed, executions) ==
    IF executions # <<>> THEN Div(Len(completed), Len(executions)) ELSE Zero

\* The guard `if completed` forgotten.
avg_cost_per_agent_unguarded(total, completed) ==
    Round2(Div(total, 1000 * Len(completed)))

\* round(total_cost / len(completed), 2) if completed else 0
avg_cost_per_agent(total, completed) ==
    IF completed # <<>> THEN Round2(Div(total, 1000 * Len(completed))) ELSE Zero

get_summary(ss) ==
    LET executions == ByAction(ss, "execute")
        completed == ByAction(ss, "complete")
        failed == ByAction(ss, "failed")
    IN  [ total_executions |-> Len(executions),
          completed |-> Len(completed),
          failed |-> Len(failed),
          success_rate |-> success_rate(completed, executions),
          total_cost_usd |-> Round2(Usd(total_cost(ss))),
          avg_cost_per_agent |-> avg_cost_per_agent(total_cost(ss), completed) ]

(* basic_stats.get_summary: the same, with total_sessions and a rounded    *)
(* success_rate.                                                           *)
basic_get_summary(ss) ==
    LET executions == ByAction(ss, "execute")
        completed == ByAction(ss, "complete")
        failed == ByAction(ss, "failed")
    IN  [ total_sessions |-> Len(ss),
          total_executions |-> Len(executions),
          completed |-> Len(completed),
          failed |-> Len(failed),
          success_rate |-> Round2(success_rate(completed, executions)),
          total_cost_usd |-> Round2(Usd(total_cost(ss))),
          avg_cost_per_agent |-> avg_cost_per_agent(total_cost(ss), completed) ]

-----------------------------------------------------------------------------
(* analyze_agent_types.  type_data is a defaultdict: a key is inserted, at *)
(* the end, the first time a branch of the loop touches it.  Dicts keep    *)
(* insertion order, so type_data and the result are sequences of entries.  *)

NewTypeData(t) == [type |-> t, count |-> 0, costs |-> <<>>, success |-> 0, failed |-> 0]

\* type_data[agent_type]: the index of the entry, inserting the default first.
Touch(td, t) ==
    IF \E i \in 1..Len(td) : td[i].type = t THEN td ELSE Append(td, NewTypeData(t))

IndexOf(td, t) == CHOOSE i \in 1..Len(td) : td[i].type = t

\* One iteration of `for session in sessions`.
TypeStep(td, session) ==
    LET agent_type == Get(session, "agent_type", "unknown")
        action == Get(session, "action", None)
        td1 == Touch(td, agent_type)
        i == IndexOf(td1, agent_type)
    IN  IF action = "execute"
        THEN [td1 EXCEPT ![i].count = @ + 1,
                         ![i].costs = IF "cost_usd" \in DOMAIN session
                                      THEN Append(@, session.cost_usd) ELSE @]
        ELSE IF action = "complete" THEN [td1 EXCEPT ![i].success = @ + 1]
        ELSE IF action = "failed" THEN [td1 EXCEPT ![i].failed = @ + 1]
        ELSE td

\* for session in sessions, from the first record on.  (The test on Len
\* makes TLC evaluate each iteration before it enters the next one, which
\* keeps its evaluation stack flat on long logs.)
RECURSIVE TypeLoop(_, _)
TypeLoop(td, ss) ==
    IF ss = <<>> THEN td
    ELSE LET next == TypeStep(td, Head(ss))
         IN  IF Len(next) >= 0 THEN TypeLoop(next, Tail(ss)) ELSE next

type_data(ss) == TypeLoop(<<>>, ss)

\* data["success"] / data["count"] if data["count"] > 0 else 0
type_success_rate(data) ==
    IF data.count > 0 THEN Div(data.success, data.count) ELSE Zero

\* The four cost statistics of one group.
avg_cost(costs) == IF costs # <<>> THEN Round2(mean(costs)) ELSE Zero
min_cost(costs) == IF costs # <<>> THEN Round2(min(costs)) ELSE Zero
max_cost(costs) == IF costs # <<>> THEN Round2(max(costs)) ELSE Zero
median_cost(costs) ==
    IF costs # <<>> /\ Len(costs) > 1 THEN Round2(median(costs))
    ELSE IF costs # <<>> THEN Usd(costs[1]) ELSE Zero

TypeEntry(data, rate) ==
    [ type |-> data.type,
      count |-> data.count,
      success |-> data.success,
      failed |-> data.failed,
      success_rate |-> rate,
      avg_cost |-> avg_cost(data.costs),
      min_cost |-> min_cost(data.costs),
      max_cost |-> max_cost(data.costs),
      median_cost |-> median_cost(data.costs) ]

\* The filter on count forgotten: every group of type_data is reported.
Reported_any(data) == data.count + data.success + data.failed > 0

\* if data["count"] > 0: the groups that are reported
Reported(data) == data.count > 0

analyze_agent_types(ss) ==
    LET kept == SelectSeq(type_data(ss), Reported)
    IN  [i \in 1..Len(kept) |-> TypeEntry(kept[i], type_success_rate(kept[i]))]

\* basic_stats.analyze_agent_types rounds success_rate to 2 decimals.
basic_analyze_agent_types(ss) ==
    LET kept == SelectSeq(type_data(ss), Reported)
    IN  [i \in 1..Len(kept) |-> TypeEntry(kept[i], Round2(type_success_rate(kept[i])))]

-----------------------------------------------------------------------------
(* analyze_costs                                                           *)

\* costs_by_action: the costed records grouped by s.get('action', 'unknown'),
\* the groups in the order of their first costed record.
RECURSIVE ActionOrder(_)
ActionOrder(ss) ==
    IF ss = <<>> THEN <<>>
    ELSE LET before == ActionOrder(SubSeq(ss, 1, Len(ss) - 1))
             s == ss[Len(ss)]
             a == Get(s, "action", "unknown")
         IN  IF "cost_usd" \notin DOMAIN s \/ \E i \in 1..Len(before) : before[i] = a
             THEN before ELSE Append(before, a)

costs_by_action(ss, a) ==
    CostsOf(SelectSeq(ss, LAMBDA s : Get(s, "action", "unknown") = a))

\* round(stdev(costs), 2) if len(costs) > 1 else 0.  The sample variance of
\* q (in mills^2) is N / D; the result is the number of cents nearest to
\* its square root.
stdev(q) ==
    IF Len(q) > 1
    THEN LET n == Len(q)
             N == n * SumSeq([i \in 1..n |-> q[i] * q[i]]) - SumSeq(q) * SumSeq(q)
             D == n * (n - 1)
             k == CHOOSE c \in 0..(MaxSeq(q) \div 10 + 1) :
                      /\ (2 * c + 1) * (2 * c + 1) * 25 * D > N
                      /\ c > 0 => (2 * c - 1) * (2 * c - 1) * 25 * D <= N
         IN  <<k, 100>>
    ELSE Zero

ActionStats(a, costs) ==
    [ action |-> a,
      count |-> Len(costs),
      total |-> Round2(Usd(SumSeq(costs))),
      avg |-> Round2(mean(costs)),
      min |-> Round2(min(costs)),
      max |-> Round2(max(costs)),
      median |-> IF Len(costs) > 1 THEN Round2(median(costs)) ELSE Usd(costs[1]),
      stdev |-> stdev(costs) ]

\* The category boundaries 0.15 and 0.40, in mills.
SimpleMax == 150
MediumMax == 400

\* A slip in the lower edge: 0.15 <= c <= 0.40
medium_inclusive(c) == SimpleMax <= c /\ c <= MediumMax

simple(c) == c <= SimpleMax
medium(c) == SimpleMax < c /\ c <= MediumMax
complex(c) == c > MediumMax

\* [s.get('cost_usd', 0) for s in sessions
\*      if 'cost_usd' in s and s.get('action') == 'execute']
all_costs(ss) == CostsOf(ByAction(ss, "execute"))

categories(costs) ==
    [ simple |-> Len(SelectSeq(costs, simple)),
      medium |-> Len(SelectSeq(costs, medium)),
      complex |-> Len(SelectSeq(costs, complex)) ]

\* The result dict: the per-action statistics, and the key "categories"
\* only `if all_costs`.
analyze_costs(ss) ==
    LET order == ActionOrder(ss)
        stats == [i \in 1..Len(order) |->
                      ActionStats(order[i], costs_by_action(ss, order[i]))]
    IN  IF all_costs(ss) # <<>>
        THEN [stats |-> stats, categories |-> categories(all_costs(ss))]
        ELSE [stats |-> stats]

-----------------------------------------------------------------------------
(* analyze_success                                                         *)

EmptyDict == [k \in {} |-> None]
Put(m, k, v) == [x \in DOMAIN m \cup {k} |-> IF x = k THEN v ELSE m[x]]

\* for session in q: sid = session.get('session_id'); if sid: m[sid] = v
RECURSIVE SetOutcomes(_, _, _)
SetOutcomes(m, q, v) ==
    IF q = <<>> THEN m
    ELSE LET sid == Get(Head(q), "session_id", None)
         IN  SetOutcomes(IF Truthy(sid) THEN Put(m, sid, v) ELSE m, Tail(q), v)

\* The dict after the loop over the successes, then the loop over the failures.
session_outcomes(ss) ==
    SetOutcomes(SetOutcomes(EmptyDict, ByAction(ss, "complete"), "success"),
                ByAction(ss, "failed"), "failed")

\* round(n / total, 2) if total > 0 else 0
outcome_rate(n, total) == IF total > 0 THEN Round2(Div(n, total)) ELSE Zero

analyze_success(ss) ==
    LET outcomes == session_outcomes(ss)
        success_count == Cardinality({k \in DOMAIN outcomes : outcomes[k] = "success"})
        failure_count == Cardinality({k \in DOMAIN outcomes : outcomes[k] = "failed"})
        total == Cardinality(DOMAIN outcomes)
    IN  [ total_attempts |-> total,
          successful |-> success_count,
          failed |-> failure_count,
          success_rate |-> outcome_rate(success_count, total),
          failure_rate |-> outcome_rate(failure_count, total) ]

-----------------------------------------------------------------------------
(* analyze_resumes                                                         *)

\* session_resumes: Counter of the truthy session ids of the resume records
RECURSIVE CountSids(_, _)
CountSids(m, q) ==
    IF q = <<>> THEN m
    ELSE LET sid == Get(Head(q), "session_id", None)
         IN  CountSids(IF Truthy(sid)
                       THEN Put(m, sid, IF sid \in DOMAIN m THEN m[sid] + 1 ELSE 1)
                       ELSE m, Tail(q))

\* The test `if sid:` forgotten: every resume record is counted, under the
\* session id that get returns.
RECURSIVE CountAll(_, _)
CountAll(m, q) ==
    IF q = <<>> THEN m
    ELSE LET sid == Get(Head(q), "session_id", None)
         IN  CountAll(Put(m, sid, IF sid \in DOMAIN m THEN m[sid] + 1 ELSE 1), Tail(q))

session_resumes_unfiltered(ss) == CountAll(EmptyDict, ByAction(ss, "resume"))

session_resumes(ss) == CountSids(EmptyDict, ByAction(ss, "resume"))

RECURSIVE SumOver(_, _)
SumOver(m, S) ==
    IF S = {} THEN 0
    ELSE LET k == CHOOSE x \in S : TRUE IN m[k] + SumOver(m, S \ {k})

\* round(x, 1)
Round1(x) == IF Raises(x) THEN x ELSE <<RoundHalfEven(10 * x[1], x[2]), 10>>

\* A slip in the last bucket: c > 2 instead of c >= 2.
analyze_resumes_two_plus_strict(ss) ==
    LET counter == session_resumes(ss)
        sids == DOMAIN counter
    IN  IF sids = {}
        THEN [ total_resumes |-> 0,
               sessions_with_resumes |-> 0,
               avg_resumes_per_session |-> Zero ]
        ELSE [ total_resumes |-> SumOver(counter, sids),
               sessions_with_resumes |-> Cardinality(sids),
               avg_resumes_per_session |->
                   Round1(Div(SumOver(counter, sids), Cardinality(sids))),
               max_resumes |-> CHOOSE n \in {counter[k] : k \in sids} :
                                   \A k \in sids : counter[k] <= n,
               distribution |->
                   [ zero_resumes |-> Len(ByAction(ss, "complete")) - Cardinality(sids),
                     one_resume |-> Cardinality({k \in sids : counter[k] = 1}),
                     two_plus_resumes |-> Cardinality({k \in sids : counter[k] > 2}) ] ]

analyze_resumes(ss) ==
    LET counter == session_resumes(ss)
        sids == DOMAIN counter
    IN  IF sids = {}
        THEN [ total_resumes |-> 0,
               sessions_with_resumes |-> 0,
               avg_resumes_per_session |-> Zero ]
        ELSE [ total_resumes |-> SumOver(counter, sids),
               sessions_with_resumes |-> Cardinality(sids),
               avg_resumes_per_session |->
                   Round1(Div(SumOver(counter, sids), Cardinality(sids))),
               max_resumes |-> CHOOSE n \in {counter[k] : k \in sids} :
                                   \A k \in sids : counter[k] <= n,
               distribution |->
                   [ zero_resumes |-> Len(ByAction(ss, "complete")) - Cardinality(sids),
                     one_resume |-> Cardinality({k \in sids : counter[k] = 1}),
                     two_plus_resumes |-> Cardinality({k \in sids : counter[k] >= 2}) ] ]

\* analyze_tool_patterns returns a fixed placeholder.
analyze_tool_patterns == [note |-> "requires agent config inspection"]

-----------------------------------------------------------------------------
(* generate_recommendations.  A recommendation is the rule that emitted    *)
(* it, with the name and the number its text is formatted from.            *)

Recommendation(rule, name, value) == [rule |-> rule, name |-> name, value |-> value]

\* The thresholds 0.70, 0.85, 0.50 and 2 of the rules.
LowSuccess == <<70, 100>>
HighSuccess == <<85, 100>>
HighCost == <<50, 100>>
HighResumes == <<2, 1>>

\* A slip in the comparison: success_rate <= 0.70
success_rule_inclusive(rate) ==
    IF RLe(rate, LowSuccess) THEN <<Recommendation("low_success_rate", "", rate)>>
    ELSE IF RLe(HighSuccess, rate) THEN <<Recommendation("high_success_rate", "", rate)>>
    ELSE <<>>

\* if summary["success_rate"] < 0.70: ... elif summary["success_rate"] >= 0.85: ...
success_rule(rate) ==
    IF RLt(rate, LowSuccess) THEN <<Recommendation("low_success_rate", "", rate)>>
    ELSE IF RLe(HighSuccess, rate) THEN <<Recommendation("high_success_rate", "", rate)>>
    ELSE <<>>

\* if avg_cost > 0.50
cost_rule(avg) ==
    IF RLt(HighCost, avg) THEN <<Recommendation("high_cost", "", avg)>> ELSE <<>>

\* if avg_resumes > 2
resume_rule(avg) ==
    IF RLt(HighResumes, avg) THEN <<Recommendation("high_resumes", "", avg)>> ELSE <<>>

\* The last entry of greatest count instead of the first.
most_common_last(agent_types) ==
    agent_types[CHOOSE i \in 1..Len(agent_types) :
                    /\ \A j \in 1..Len(agent_types) :
                           agent_types[j].count <= agent_types[i].count
                    /\ \A j \in (i + 1)..Len(agent_types) :
                           agent_types[j].count < agent_types[i].count]

\* max(agent_types.items(), key=lambda x: x[1]["count"]): the first entry,
\* in the dict's order, whose count no entry exceeds.
most_common(agent_types) ==
    agent_types[CHOOSE i \in 1..Len(agent_types) :
                    /\ \A j \in 1..Len(agent_types) :
                           agent_types[j].count <= agent_types[i].count
                    /\ \A j \in 1..(i - 1) :
                           agent_types[j].count < agent_types[i].count]

\* if len(agent_types) > 3
type_rule(agent_types) ==
    IF Len(agent_types) > 3
    THEN LET m == most_common(agent_types)
         IN  <<Recommendation("template", m.type, <<m.count, 1>>)>>
    ELSE <<>>

\* if len(self.sessions) < 5
history_rule(ss) ==
    IF Len(ss) < 5 THEN <<Recommendation("limited_history", "", <<Len(ss), 1>>)>>
    ELSE <<>>

generate_recommendations(ss) ==
    LET summary == get_summary(ss)
        resume_patterns == analyze_resumes(ss)
        agent_types == analyze_agent_types(ss)
    IN  success_rule(summary.success_rate)
        \o cost_rule(summary.avg_cost_per_agent)
        \o resume_rule(resume_patterns.avg_resumes_per_session)
        \o type_rule(agent_types)
        \o history_rule(ss)

-----------------------------------------------------------------------------
(* The documents.                                                          *)

NoDoc == [status |-> "none"]

\* ExperienceAnalyzer.analyze_all
analyze_all(ss) ==
    IF ss = <<>>
    THEN [ status |-> "no_history",
           message |-> "No session history found",
           total_sessions |-> 0 ]
    ELSE [ status |-> "analyzed",
           total_sessions |-> Len(ss),
           summary |-> get_summary(ss),
           agent_types |-> analyze_agent_types(ss),
           cost_patterns |-> analyze_costs(ss),
           success_metrics |-> analyze_success(ss),
           tool_patterns |-> analyze_tool_patterns,
           resume_patterns |-> analyze_resumes(ss),
           recommendations |-> generate_recommendations(ss) ]

\* The document basic_stats.main prints.
basic_main(ss) ==
    IF ss = <<>>
    THEN [ status |-> "no_history",
           message |-> "No session history found",
           summary |-> [ total_sessions |-> 0,
                         total_executions |-> 0,
                         completed |-> 0,
                         failed |-> 0,
                         success_rate |-> Zero,
                         total_cost_usd |-> Zero,
                         avg_cost_per_agent |-> Zero ],
           agent_types |-> <<>>,
           cost_patterns |-> [stats |-> <<>>] ]
    ELSE [ status |-> "analyzed",
           summary |-> basic_get_summary(ss),
           agent_types |-> basic_analyze_agent_types(ss),
           cost_patterns |-> analyze_costs(ss) ]

\* Whether computing a document raised: s.get on a value that is no dict
\* (AttributeError), or a division or statistic that raised.
SummaryRaises(s) ==
    Raises(s.success_rate) \/ Raises(s.total_cost_usd) \/ Raises(s.avg_cost_per_agent)

TypesRaise(q) ==
    \E i \in 1..Len(q) :
        \/ Raises(q[i].success_rate) \/ Raises(q[i].avg_cost) \/ Raises(q[i].min_cost)
        \/ Raises(q[i].max_cost) \/ Raises(q[i].median_cost)

CostsRaise(c) ==
    \E i \in 1..Len(c.stats) :
        \/ Raises(c.stats[i].total) \/ Raises(c.stats[i].avg) \/ Raises(c.stats[i].min)
        \/ Raises(c.stats[i].max) \/ Raises(c.stats[i].median) \/ Raises(c.stats[i].stdev)

SuccessRaises(m) == Raises(m.success_rate) \/ Raises(m.failure_rate)

ResumesRaise(r) == Raises(r.avg_resumes_per_session)

DocRaises(ss, doc) ==
    \/ \E i \in 1..Len(ss) : ~IsDict(ss[i])
    \/ /\ doc.status = "analyzed"
       /\ \/ SummaryRaises(doc.summary)
          \/ TypesRaise(doc.agent_types)
          \/ CostsRaise(doc.cost_patterns)
          \/ "success_metrics" \in DOMAIN doc /\ SuccessRaises(doc.success_metrics)
          \/ "resume_patterns" \in DOMAIN doc /\ ResumesRaise(doc.resume_patterns)

ErrorDoc == [status |-> "error"]

-----------------------------------------------------------------------------
(* The loader: ExperienceAnalyzer.load_sessions and basic_stats.           *)
(* load_sessions.  One try block encloses the open and the whole for-loop. *)

\* open() raises FileNotFoundError: both programs end with an empty list.
FileNotFound ==
    /\ pc = "open"
    /\ ~exists
    /\ sessions' = <<>>
    /\ pc' = "loaded"
    /\ UNCHANGED <<impl, exists, file, pos, stderr, out>>

\* open() succeeds.
OpenFile ==
    /\ pc = "open"
    /\ exists
    /\ pc' = "reading"
    /\ UNCHANGED <<impl, exists, file, pos, sessions, stderr, out>>

\* for line in f: a line for which line.strip() is empty is passed over.
SkipBlank ==
    /\ pc = "reading"
    /\ pos < Len(file)
    /\ ~strip(file[pos + 1])
    /\ pos' = pos + 1
    /\ UNCHANGED <<impl, exists, file, sessions, stderr, pc, out>>

\* self.sessions.append(json.loads(line))
AppendRecord ==
    /\ pc = "reading"
    /\ pos < Len(file)
    /\ strip(file[pos + 1])
    /\ json_loads(file[pos + 1]).ok
    /\ sessions' = Append(sessions, json_loads(file[pos + 1]).value)
    /\ pos' = pos + 1
    /\ UNCHANGED <<impl, exists, file, stderr, pc, out>>

\* What `except json.JSONDecodeError` leaves in the list: the analyzer only
\* prints a warning (self.sessions keeps what was appended), basic_stats
\* returns [].
AfterDecodeError(program, loaded) == IF program = "analyzer" THEN loaded ELSE <<>>

\* json.loads raises JSONDecodeError: control leaves the for-loop for the
\* except clause, and the rest of the file is not read.
DecodeError ==
    /\ pc = "reading"
    /\ pos < Len(file)
    /\ strip(file[pos + 1])
    /\ ~json_loads(file[pos + 1]).ok
    /\ stderr' = stderr + 1
    /\ sessions' = AfterDecodeError(impl, sessions)
    /\ pos' = pos + 1
    /\ pc' = "loaded"
    /\ UNCHANGED <<impl, exists, file, out>>

\* The for-loop ends at the end of the file.
EndOfFile ==
    /\ pc = "reading"
    /\ pos = Len(file)
    /\ pc' = "loaded"
    /\ UNCHANGED <<impl, exists, file, pos, sessions, stderr, out>>

\* analyzer.analyze_all() in analyze_experience.main
AnalyzeAll ==
    /\ pc = "loaded"
    /\ impl = "analyzer"
    /\ IF DocRaises(sessions, analyze_all(sessions))
       THEN out' = ErrorDoc /\ pc' = "raised"
       ELSE out' = analyze_all(sessions) /\ pc' = "done"
    /\ UNCHANGED <<impl, exists, file, pos, sessions, stderr>>

\* basic_stats.main after load_sessions
BasicMain ==
    /\ pc = "loaded"
    /\ impl = "basic_stats"
    /\ IF DocRaises(sessions, basic_main(sessions))
       THEN out' = ErrorDoc /\ pc' = "raised"
       ELSE out' = basic_main(sessions) /\ pc' = "done"
    /\ UNCHANGED <<impl, exists, file, pos, sessions, stderr>>

-----------------------------------------------------------------------------
(* Bounded inputs.                                                         *)

\* All sequences over S of length at most n.
SeqsUpTo(S, n) == UNION {[1..k -> S] : k \in 0..n}

MaxLines == 4
LoadRecords == { [action |-> "execute", cost_usd |-> 150],
                 [action |-> "complete"] }
LoadLines == {BlankLine, MalformedLine, ScalarLine}
                 \cup {ObjectLine(r) : r \in LoadRecords}

\* The program about to open a file of the given lines, or a missing file.
InitLoad ==
    /\ impl \in Impls
    /\ exists \in BOOLEAN
    /\ file \in (IF exists THEN SeqsUpTo(LoadLines, MaxLines) ELSE {<<>>})
    /\ pos = 0
    /\ sessions = <<>>
    /\ stderr = 0
    /\ pc = "open"
    /\ out = NoDoc

Load == FileNotFound \/ OpenFile \/ SkipBlank \/ AppendRecord \/ DecodeError \/ EndOfFile

Next == Load \/ AnalyzeAll \/ BasicMain

Spec == InitLoad /\ [][Next]_vars

\* The program with a file of well-formed object lines loaded (the state
\* the constructor of ExperienceAnalyzer leaves, and the one in which
\* basic_stats.main holds the list load_sessions returned).
Loaded(I, S) ==
    /\ impl \in I
    /\ exists = TRUE
    /\ sessions \in S
    /\ file = [i \in 1..Len(sessions) |-> ObjectLine(sessions[i])]
    /\ pos = Len(sessions)
    /\ stderr = 0
    /\ pc = "loaded"
    /\ out = NoDoc

Analyze == AnalyzeAll \/ BasicMain

\* Records that carry an action only, for the rates: every order of up to
\* MaxRateLen records, and every log of e executes followed by c completes.
MaxRateLen == 5
MaxBlock == 20
RateRecords == {[action |-> "execute"], [action |-> "complete"], [action |-> "failed"]}
Block(e, c) ==
    [i \in 1..(e + c) |-> IF i <= e THEN [action |-> "execute"] ELSE [action |-> "complete"]]
RateInputs ==
    SeqsUpTo(RateRecords, MaxRateLen) \cup {Block(e, c) : e \in 0..MaxBlock, c \in 0..MaxBlock}

InitRate == Loaded(Impls, RateInputs)
SpecRate == InitRate /\ [][Analyze]_vars

\* Records with an action and a cost (0.15, 0.151, 0.40, 0.409 dollars), and
\* a costed record without action.
MaxCostLen == 4
CostRecords ==
    {[action |-> a] : a \in {"execute", "complete"}}
        \cup [action : {"execute", "complete"}, cost_usd : {150, 151, 400, 409}]
        \cup {[cost_usd |-> 20]}

InitCost == Loaded(Impls, SeqsUpTo(CostRecords, MaxCostLen))
SpecCost == InitCost /\ [][Analyze]_vars

\* Records with an action and an agent type.
MaxTypeLen == 5
TypeRecords ==
    { [action |-> "execute"],
      [action |-> "execute", agent_type |-> "a"],
      [action |-> "execute", agent_type |-> "b"],
      [action |-> "execute", agent_type |-> "c"],
      [action |-> "complete"],
      [action |-> "complete", agent_type |-> "a"],
      [action |-> "failed", agent_type |-> "a"],
      [action |-> "resume", agent_type |-> "b"] }

InitType == Loaded(Impls, SeqsUpTo(TypeRecords, MaxTypeLen))
SpecType == InitType /\ [][Analyze]_vars

\* Records of sessions: executes of one type with and without a cost, and
\* complete, failed and resume records with and without a session id.
MaxSessLen == 4
SessRecords ==
    { [action |-> "execute", agent_type |-> "a"],
      [action |-> "execute", agent_type |-> "a", cost_usd |-> 150, session_id |-> "s1"] }
        \cup {[action |-> a] : a \in {"complete", "failed", "resume"}}
        \cup [action : {"complete", "failed", "resume"}, session_id : {"s1", "s2"}]

InitSess == Loaded({"analyzer"}, SeqsUpTo(SessRecords, MaxSessLen))
SpecSess == InitSess /\ [][AnalyzeAll]_vars

\* Resume records without session id, with an empty one and of two
\* sessions, beside complete and execute records.
MaxResumeLen == 5
ResumeRecords ==
    {[action |-> a] : a \in {"resume", "complete", "execute"}}
        \cup [action : {"resume"}, session_id : {"", "s1", "s2"}]

InitResume == Loaded({"analyzer"}, SeqsUpTo(ResumeRecords, MaxResumeLen))
SpecResume == InitResume /\ [][AnalyzeAll]_vars

-----------------------------------------------------------------------------
(* What the claims speak of.                                               *)

\* The records of the file that are JSON objects, in file order.
ValidRecords(f) ==
    LET objs == SelectSeq(f, LAMBDA l : l.kind = "object")
    IN  [i \in 1..Len(objs) |-> objs[i].value]

\* The number of loaded records with the given action.
NumAction(a) == Cardinality({i \in 1..Len(sessions) : Get(sessions[i], "action", None) = a})

Analyzed == pc = "done" /\ out.status = "analyzed"

HasRule(rule) ==
    \E i \in 1..Len(out.recommendations) : out.recommendations[i].rule = rule

-----------------------------------------------------------------------------
\* C1: once loading has ended, without raising, the loaded sequence is
\* exactly the JSON-object lines of the file in file order, wherever the
\* malformed lines sit.
C1_LoadedIsValidLines ==
    (pc \in {"loaded", "done", "raised"} /\ exists) =>
        (pc # "raised" /\ sessions = ValidRecords(file))

\* C2 as stated: for a non-empty record sequence success_rate lies in
\* [0, 1] and is 0 exactly when there is no execute record.
C2_RateInUnitIntervalZeroIffNoExecute ==
    Analyzed =>
        /\ RLe(Zero, out.summary.success_rate)
        /\ RLe(out.summary.success_rate, <<1, 1>>)
        /\ REq(out.summary.success_rate, Zero) <=> NumAction("execute") = 0

\* C2 amended: success_rate is never negative; it is 0 whenever there is no
\* execute record or no complete record, and in analyze_experience.py
\* (which does not round it) only then.
C2_RateNonNegativeZeroCases ==
    Analyzed =>
        /\ ~Raises(out.summary.success_rate)
        /\ RLe(Zero, out.summary.success_rate)
        /\ (NumAction("execute") = 0 \/ NumAction("complete") = 0)
               => REq(out.summary.success_rate, Zero)
        /\ (impl = "analyzer" /\ REq(out.summary.success_rate, Zero))
               => (NumAction("execute") = 0 \/ NumAction("complete") = 0)

\* C2 witness: more complete than execute records, and a rate above 1.
C2_Witness ==
    /\ Analyzed
    /\ NumAction("execute") > 0
    /\ NumAction("complete") > NumAction("execute")
    /\ RLt(<<1, 1>>, out.summary.success_rate)

\* C3: when the file is missing, empty or yields no record, no error is
\* raised and the document carries every summary field with value zero and
\* empty group mappings, under the same top-level sections as the document
\* of a non-empty record sequence.
C3_NoHistoryKeepsShape ==
    ((pc = "done" \/ pc = "raised") /\ sessions = <<>>) =>
        /\ pc = "done"
        /\ out.status = "no_history"
        /\ DOMAIN (IF impl = "analyzer" THEN analyze_all(<<[action |-> "execute"]>>)
                   ELSE basic_main(<<[action |-> "execute"]>>)) \subseteq DOMAIN out
        /\ out.summary.total_executions = 0
        /\ out.summary.completed = 0
        /\ out.summary.failed = 0
        /\ REq(out.summary.success_rate, Zero)
        /\ REq(out.summary.total_cost_usd, Zero)
        /\ REq(out.summary.avg_cost_per_agent, Zero)
        /\ out.agent_types = <<>>
        /\ out.cost_patterns.stats = <<>>

\* C8: the low-success warning is emitted exactly when
\* completed/executions (0 without executions) is below 0.70, the positive
\* note exactly when it is at least 0.85, and never both.
C8_SuccessRules ==
    (Analyzed /\ impl = "analyzer") =>
        LET e == NumAction("execute")
            c == NumAction("complete")
        IN  /\ HasRule("low_success_rate") <=> (e = 0 \/ 100 * c < 70 * e)
            /\ HasRule("high_success_rate") <=> (e > 0 /\ 100 * c >= 85 * e)
            /\ ~(HasRule("low_success_rate") /\ HasRule("high_success_rate"))

\* C8 witness: a success rate of exactly 0.70, where neither is emitted.
C8_Witness ==
    /\ Analyzed /\ impl = "analyzer"
    /\ NumAction("execute") = 10 /\ NumAction("complete") = 7
    /\ ~HasRule("low_success_rate") /\ ~HasRule("high_success_rate")

-----------------------------------------------------------------------------
\* The indexes of the loaded records.
Idx == 1..Len(sessions)
ActionOf(i) == Get(sessions[i], "action", None)
TypeOf(i) == Get(sessions[i], "agent_type", "unknown")
Costed(i) == "cost_usd" \in DOMAIN sessions[i]
HasSid(i) == "session_id" \in DOMAIN sessions[i]

RECURSIVE SumCost(_)
SumCost(S) ==
    IF S = {} THEN 0
    ELSE LET i == CHOOSE x \in S : TRUE IN sessions[i].cost_usd + SumCost(S \ {i})

\* The terminal records of a session id, and the last of them.
Terminals(sid) ==
    {i \in Idx : HasSid(i) /\ sessions[i].session_id = sid
                     /\ ActionOf(i) \in {"complete", "failed"}}
LastTerminal(sid) == CHOOSE i \in Terminals(sid) : \A j \in Terminals(sid) : j <= i
TerminalSids == {sessions[i].session_id :
                     i \in {j \in Idx : HasSid(j) /\ ActionOf(j) \in {"complete", "failed"}}}

\* C4: every session id with a terminal record is counted by the outcome of
\* its last terminal record in file order: successful when that record is
\* complete, failed when it is failed.
C4_LastTerminalDecides ==
    Analyzed =>
        /\ out.success_metrics.total_attempts = Cardinality(TerminalSids)
        /\ out.success_metrics.successful =
               Cardinality({sid \in TerminalSids : ActionOf(LastTerminal(sid)) = "complete"})
        /\ out.success_metrics.failed =
               Cardinality({sid \in TerminalSids : ActionOf(LastTerminal(sid)) = "failed"})

\* The costed execute records.
CostedExecutes == {i \in Idx : ActionOf(i) = "execute" /\ Costed(i)}

\* C5: the categories block is present exactly when some execute record
\* carries cost_usd; then simple counts the costed execute records of cost
\* <= 0.15, medium those with 0.15 < cost <= 0.40, complex those of cost
\* > 0.40, and the three counts add up to the number of costed execute
\* records.
C5_CategoriesPartition ==
    Analyzed =>
        IF CostedExecutes = {}
        THEN "categories" \notin DOMAIN out.cost_patterns
        ELSE /\ "categories" \in DOMAIN out.cost_patterns
             /\ LET cat == out.cost_patterns.categories
                IN  /\ cat.simple =
                           Cardinality({i \in CostedExecutes : sessions[i].cost_usd <= 150})
                    /\ cat.medium =
                           Cardinality({i \in CostedExecutes :
                                            /\ 150 < sessions[i].cost_usd
                                            /\ sessions[i].cost_usd <= 400})
                    /\ cat.complex =
                           Cardinality({i \in CostedExecutes : sessions[i].cost_usd > 400})
                    /\ cat.simple + cat.medium + cat.complex = Cardinality(CostedExecutes)

\* C5 witness: one costed execute record in each category, the two
\* boundary costs among them, beside a costed record that is no execute.
C5_Witness ==
    /\ Analyzed
    /\ "categories" \in DOMAIN out.cost_patterns
    /\ out.cost_patterns.categories.simple = 1
    /\ out.cost_patterns.categories.medium = 1
    /\ out.cost_patterns.categories.complex = 1
    /\ \E i \in CostedExecutes : sessions[i].cost_usd = 150
    /\ \E i \in CostedExecutes : sessions[i].cost_usd = 400

\* The summary either program computes for a record sequence.
SummaryOf(ss) == IF impl = "analyzer" THEN get_summary(ss) ELSE basic_get_summary(ss)

RemoveAt(ss, i) == SubSeq(ss, 1, i - 1) \o SubSeq(ss, i + 1, Len(ss))

\* C6: total_cost_usd is the sum of cost_usd over the records that carry
\* it, whatever their action, to the nearest cent; removing or adding a
\* record without cost_usd leaves it unchanged.
C6_TotalCostOverCostedRecords ==
    Analyzed =>
        LET T == SumCost({i \in Idx : Costed(i)})
            reported == out.summary.total_cost_usd
        IN  /\ reported[2] = 100
            /\ 10 * reported[1] - 5 <= T /\ T <= 10 * reported[1] + 5
            /\ \A i \in Idx : ~Costed(i) =>
                   SummaryOf(RemoveAt(sessions, i)).total_cost_usd = reported
            /\ \A a \in {"execute", "complete", "failed", "resume"} :
                   SummaryOf(Append(sessions, [action |-> a])).total_cost_usd = reported

\* C6 witness: costed records of three kinds (execute, complete, no
\* action) beside a record without cost, and a sum that is rounded.
C6_Witness ==
    /\ Analyzed
    /\ \E i \in Idx : Costed(i) /\ ActionOf(i) = "complete"
    /\ \E i \in Idx : Costed(i) /\ ActionOf(i) = None
    /\ \E i \in Idx : ~Costed(i)
    /\ SumCost({i \in Idx : Costed(i)}) % 10 # 0
    /\ out.summary.total_cost_usd # Zero

\* C7: no aggregator raises, and a rate or average whose denominator is
\* zero is reported as 0: success_rate without execute record,
\* avg_cost_per_agent without complete record, the cost statistics of a
\* type without costed execute record, the session success and failure
\* rates when no terminal record carries a session id, and
\* avg_resumes_per_session when no resume record carries one.
C7_ZeroDenominatorsReportZero ==
    /\ pc # "raised"
    /\ Analyzed =>
        /\ NumAction("execute") = 0 => out.summary.success_rate = Zero
        /\ NumAction("complete") = 0 => out.summary.avg_cost_per_agent = Zero
        /\ \A k \in 1..Len(out.agent_types) :
               LET g == out.agent_types[k]
               IN  (~\E i \in CostedExecutes : TypeOf(i) = g.type) =>
                       /\ g.avg_cost = Zero /\ g.min_cost = Zero
                       /\ g.max_cost = Zero /\ g.median_cost = Zero
        /\ TerminalSids = {} =>
               /\ out.success_metrics.success_rate = Zero
               /\ out.success_metrics.failure_rate = Zero
        /\ (~\E i \in Idx : ActionOf(i) = "resume" /\ HasSid(i)) =>
               out.resume_patterns.avg_resumes_per_session = Zero

\* C7 witness: no complete record, a reported type without costed execute,
\* terminal and resume records that all lack a session id.
C7_Witness ==
    /\ Analyzed
    /\ NumAction("complete") = 0
    /\ NumAction("execute") > 0 /\ CostedExecutes = {}
    /\ NumAction("failed") > 0 /\ TerminalSids = {}
    /\ NumAction("resume") > 0
    /\ ~\E i \in Idx : ActionOf(i) = "resume" /\ HasSid(i)

-----------------------------------------------------------------------------
\* The agent types ("unknown" for a record without agent_type) with at
\* least one execute record, and the execute count of a type.
ExecutedTypes == {TypeOf(i) : i \in {j \in Idx : ActionOf(j) = "execute"}}
NumOfType(a, ty) == Cardinality({i \in Idx : ActionOf(i) = a /\ TypeOf(i) = ty})
GreatestTypes ==
    {ty \in ExecutedTypes :
         \A u \in ExecutedTypes : NumOfType("execute", u) <= NumOfType("execute", ty)}

\* The first record of a type, among the records whose action is in A.
FirstOf(ty, A) ==
    CHOOSE i \in Idx :
        /\ TypeOf(i) = ty /\ ActionOf(i) \in A
        /\ \A j \in 1..(i - 1) : ~(TypeOf(j) = ty /\ ActionOf(j) \in A)

AnyAction == {"execute", "complete", "failed", "resume", None}
Grouped == {"execute", "complete", "failed"}

\* The template suggestion, when emitted.
Template ==
    out.recommendations[CHOOSE i \in 1..Len(out.recommendations) :
                            out.recommendations[i].rule = "template"]

\* The rule as a whole, the tie broken among the records of actions A.
TemplateRule(A) ==
    /\ HasRule("template") <=> Cardinality(ExecutedTypes) > 3
    /\ HasRule("template") =>
           /\ Template.name \in GreatestTypes
           /\ Template.value = <<NumOfType("execute", Template.name), 1>>
           /\ \A u \in GreatestTypes : FirstOf(Template.name, A) <= FirstOf(u, A)

\* C9 as stated: the template suggestion is emitted exactly when more than
\* 3 distinct agent types have an execute record; it names a type of
\* greatest execute count, with that count, and among several such types
\* the one whose first record comes first in the record sequence.
C9_TemplateNamesFirstInSequence ==
    (Analyzed /\ impl = "analyzer") => TemplateRule(AnyAction)

\* C9 amended: the same, the tie going to the type whose first execute,
\* complete or failed record comes first (a record of another action does
\* not count as an encounter of its type).
C9_TemplateNamesFirstGrouped ==
    (Analyzed /\ impl = "analyzer") => TemplateRule(Grouped)

\* C9 witness: four types tied at one execute each, the sequence opening
\* with a resume record of a tied type that is not the one named.
C9_Witness ==
    /\ Analyzed /\ impl = "analyzer"
    /\ HasRule("template")
    /\ Cardinality(GreatestTypes) = 4
    /\ ActionOf(1) = "resume"
    /\ TypeOf(1) \in GreatestTypes
    /\ Template.name # TypeOf(1)

\* The reported group of a type.
GroupOf(ty) ==
    out.agent_types[CHOOSE k \in 1..Len(out.agent_types) : out.agent_types[k].type = ty]

\* What C10 says of the groups but for success_rate: a type is reported,
\* once, exactly when it has an execute record, with its numbers of
\* execute, complete and failed records.
GroupsAndCounts ==
    /\ {out.agent_types[k].type : k \in 1..Len(out.agent_types)} = ExecutedTypes
    /\ Len(out.agent_types) = Cardinality(ExecutedTypes)
    /\ \A ty \in ExecutedTypes :
           /\ GroupOf(ty).count = NumOfType("execute", ty)
           /\ GroupOf(ty).success = NumOfType("complete", ty)
           /\ GroupOf(ty).failed = NumOfType("failed", ty)

\* C10 as stated: the groups and counts, and success_rate = success / count
\* for each reported type.
C10_GroupsWithExactRate ==
    Analyzed =>
        /\ GroupsAndCounts
        /\ \A ty \in ExecutedTypes :
               REq(GroupOf(ty).success_rate,
                   <<NumOfType("complete", ty), NumOfType("execute", ty)>>)

\* C10 amended: the groups and counts; success_rate is success / count in
\* analyze_experience.py, and success / count to the nearest hundredth in
\* basic_stats.py.
C10_GroupsWithRate ==
    Analyzed =>
        /\ GroupsAndCounts
        /\ \A ty \in ExecutedTypes :
               LET rate == GroupOf(ty).success_rate
                   s == NumOfType("complete", ty)
                   c == NumOfType("execute", ty)
               IN  IF impl = "analyzer" THEN REq(rate, <<s, c>>)
                   ELSE /\ rate[2] = 100
                        /\ 2 * (rate[1] * c - 100 * s) <= c
                        /\ 2 * (100 * s - rate[1] * c) <= c

\* C10 witness: basic_stats reports 1 success over 3 executes as 0.33,
\* beside the complete record of a type that has no execute record.
C10_Witness ==
    /\ Analyzed /\ impl = "basic_stats"
    /\ \E ty \in ExecutedTypes :
           /\ GroupOf(ty).count = 3 /\ GroupOf(ty).success = 1
           /\ GroupOf(ty).success_rate = <<33, 100>>
    /\ \E i \in Idx : ActionOf(i) = "complete" /\ TypeOf(i) \notin ExecutedTypes

-----------------------------------------------------------------------------
\* The resume records, those that carry the key session_id, and those whose
\* session id is not empty.
Resumes == {i \in Idx : ActionOf(i) = "resume"}
ResumesWithSid == {i \in Resumes : HasSid(i)}
ResumesWithNonEmptySid == {i \in ResumesWithSid : sessions[i].session_id # ""}

\* The reduced result: three zero fields, no max_resumes, no distribution.
ReducedResumes(r) ==
    /\ DOMAIN r = {"total_resumes", "sessions_with_resumes", "avg_resumes_per_session"}
    /\ r.total_resumes = 0
    /\ r.sessions_with_resumes = 0
    /\ r.avg_resumes_per_session = Zero

\* What is reported of the resume records in R, the reduced result being
\* returned exactly when `reduced` holds.
ResumeReport(R, reduced) ==
    LET r == out.resume_patterns
    IN  /\ r.total_resumes = Cardinality(R)
        /\ r.sessions_with_resumes = Cardinality({sessions[i].session_id : i \in R})
        /\ IF reduced THEN ReducedResumes(r)
           ELSE /\ {"max_resumes", "distribution"} \subseteq DOMAIN r
                /\ r.distribution.zero_resumes =
                       NumAction("complete") - r.sessions_with_resumes

\* C11 as stated: total_resumes counts the resume records that carry a
\* session_id and sessions_with_resumes their distinct ids; the reduced
\* result is returned when there is no resume record at all, and otherwise
\* max_resumes and the distribution are reported, with
\* 0_resumes = (number of complete records) - sessions_with_resumes.
C11_ResumesCountedReducedWithoutResume ==
    Analyzed => ResumeReport(ResumesWithSid, Resumes = {})

\* C11 amended: the resume records counted are those with a non-empty
\* session_id, and the reduced result is returned exactly when no resume
\* record has one (also when there are resume records, all without).
C11_ResumesCountedReducedWithoutSid ==
    Analyzed => ResumeReport(ResumesWithNonEmptySid, ResumesWithNonEmptySid = {})

\* C11 witness: resume records of two sessions beside one without session
\* id and one with an empty id, and the distribution reported.
C11_Witness ==
    /\ Analyzed
    /\ \E i \in Resumes : ~HasSid(i)
    /\ \E i \in ResumesWithSid : sessions[i].session_id = ""
    /\ out.resume_patterns.total_resumes = 3
    /\ out.resume_patterns.sessions_with_resumes = 2
    /\ "distribution" \in DOMAIN out.resume_patterns

-----------------------------------------------------------------------------
\* The sessions with a resume: the distinct non-empty ids of resume records.
ResumedSids == {sessions[i].session_id : i \in ResumesWithNonEmptySid}

\* C14: whenever the distribution is reported, 1_resume + 2+_resumes =
\* sessions_with_resumes >= 1, 1 <= max_resumes <= total_resumes and
\* total_resumes >= sessions_with_resumes; no reported count but 0_resumes
\* is negative, and 0_resumes is negative exactly when there are fewer
\* complete records than sessions with a resume.
C14_DistributionArithmetic ==
    (Analyzed /\ "distribution" \in DOMAIN out.resume_patterns) =>
        LET r == out.resume_patterns
            d == r.distribution
        IN  /\ d.one_resume + d.two_plus_resumes = r.sessions_with_resumes
            /\ r.sessions_with_resumes >= 1
            /\ 1 <= r.max_resumes /\ r.max_resumes <= r.total_resumes
            /\ r.total_resumes >= r.sessions_with_resumes
            /\ d.one_resume >= 0 /\ d.two_plus_resumes >= 0
            /\ d.zero_resumes < 0 <=> NumAction("complete") < Cardinality(ResumedSids)

\* C14 witness: two resumed sessions, one of them resumed twice, and a
\* single complete record, so that 0_resumes is -1.
C14_Witness ==
    /\ Analyzed
    /\ "distribution" \in DOMAIN out.resume_patterns
    /\ out.resume_patterns.distribution.zero_resumes = -1
    /\ out.resume_patterns.distribution.one_resume = 1
    /\ out.resume_patterns.distribution.two_plus_resumes = 1
    /\ out.resume_patterns.max_resumes = 2
    /\ NumAction("complete") = 1

-----------------------------------------------------------------------------
\* The sums of count, success and failed over the reported groups.
RECURSIVE SumCount(_)
SumCount(q) == IF q = <<>> THEN 0 ELSE Head(q).count + SumCount(Tail(q))
RECURSIVE SumSuccess(_)
SumSuccess(q) == IF q = <<>> THEN 0 ELSE Head(q).success + SumSuccess(Tail(q))
RECURSIVE SumFailed(_)
SumFailed(q) == IF q = <<>> THEN 0 ELSE Head(q).failed + SumFailed(Tail(q))

\* Some record of the action belongs to a type without execute record.
Ungrouped(a) == \E i \in Idx : ActionOf(i) = a /\ TypeOf(i) \notin ExecutedTypes

\* C13: the counts of the reported agent types add up to the summary's
\* total_executions; their success (failed) numbers add up to at most the
\* summary's completed (failed), and to less when some complete (failed)
\* record belongs to a type with no execute record.
C13_GroupSumsAgainstSummary ==
    Analyzed =>
        /\ SumCount(out.agent_types) = out.summary.total_executions
        /\ SumSuccess(out.agent_types) <= out.summary.completed
        /\ SumFailed(out.agent_types) <= out.summary.failed
        /\ Ungrouped("complete") => SumSuccess(out.agent_types) < out.summary.completed
        /\ Ungrouped("failed") => SumFailed(out.agent_types) < out.summary.failed

\* C13 witness: two reported types, a complete record counted in a group,
\* and a complete and a failed record of types without execute record.
C13_Witness ==
    /\ Analyzed
    /\ Len(out.agent_types) = 2
    /\ SumCount(out.agent_types) = 2
    /\ SumSuccess(out.agent_types) = 1
    /\ out.summary.completed = 2
    /\ SumFailed(out.agent_types) = 0
    /\ out.summary.failed = 1

-----------------------------------------------------------------------------
(* The aggregators as the methods of a loaded ExperienceAnalyzer, called   *)
(* one at a time, in any order and any number of times; out collects the   *)
(* result of each method under its key of analyze_all's document.          *)

\* A slip that would write: session.setdefault('agent_type', 'unknown')
\* in place of session.get in analyze_agent_types.
sessions_after_setdefault(method, ss) ==
    IF method = "agent_types"
    THEN [i \in 1..Len(ss) |->
              IF "agent_type" \in DOMAIN ss[i] THEN ss[i]
              ELSE Put(ss[i], "agent_type", "unknown")]
    ELSE ss

\* self.sessions after the body of a method has run: no method assigns to
\* self.sessions, to an element of it or to a key of a record; the records
\* are read with s.get, `in` and s['cost_usd'], and everything built
\* (type_data, costs_by_action, session_outcomes, session_resumes, the
\* lists of costs) is local.
sessions_after(method, ss) == ss

\* The result of a method on the records it finds.
result_of(method, ss) ==
    CASE method = "summary" -> get_summary(ss)
      [] method = "agent_types" -> analyze_agent_types(ss)
      [] method = "cost_patterns" -> analyze_costs(ss)
      [] method = "success_metrics" -> analyze_success(ss)
      [] method = "resume_patterns" -> analyze_resumes(ss)
      [] method = "recommendations" -> generate_recommendations(ss)

\* generate_recommendations runs get_summary, analyze_resumes and
\* analyze_agent_types, in this order, before its own rules.
run_method(method, ss) ==
    IF method = "recommendations"
    THEN sessions_after("recommendations",
             sessions_after("agent_types",
                 sessions_after("resume_patterns", sessions_after("summary", ss))))
    ELSE sessions_after(method, ss)

Call(method) ==
    /\ pc = "loaded"
    /\ impl = "analyzer"
    /\ out' = Put(out, method, result_of(method, sessions))
    /\ sessions' = run_method(method, sessions)
    /\ UNCHANGED <<impl, exists, file, pos, stderr, pc>>

GetSummary == Call("summary")
AnalyzeAgentTypes == Call("agent_types")
AnalyzeCosts == Call("cost_patterns")
AnalyzeSuccess == Call("success_metrics")
AnalyzeResumes == Call("resume_patterns")
GenerateRecommendations == Call("recommendations")

Aggregators ==
    {"summary", "agent_types", "cost_patterns", "success_metrics",
     "resume_patterns", "recommendations"}

\* Records that every aggregator reads something of.
MaxAggLen == 3
AggRecords ==
    { [action |-> "execute"],
      [action |-> "execute", agent_type |-> "a", cost_usd |-> 150, session_id |-> "s1"],
      [action |-> "complete", session_id |-> "s1"],
      [action |-> "failed", agent_type |-> "a", session_id |-> "s1"],
      [action |-> "resume", session_id |-> "s1"],
      [action |-> "resume"] }

InitAgg == Loaded({"analyzer"}, SeqsUpTo(AggRecords, MaxAggLen))
NextAgg ==
    \/ GetSummary \/ AnalyzeAgentTypes \/ AnalyzeCosts
    \/ AnalyzeSuccess \/ AnalyzeResumes \/ GenerateRecommendations
SpecAgg == InitAgg /\ [][NextAgg]_vars

=============================================================================
